---- MODULE Spec2Model ----
(***************************************************************************)
(* Model of the OCI shape getter of the cluster autoscaler                 *)
(* (cluster-autoscaler/cloudprovider/oci/oci_shape.go).                    *)
(*                                                                         *)
(* shapeGetterImpl.GetInstancePoolShape turns an instance pool into a      *)
(* Shape by asking the ShapeClient for the pool's instance configuration   *)
(* and, for a fixed shape, for the shape catalog of its compartment.       *)
(*                                                                         *)
(* Conventions                                                             *)
(*   - a Go pointer (or interface) that may be nil is a sequence of length *)
(*     0 (nil) or 1 (the value pointed to);                                *)
(*   - a float32 is a pair [mant, exp] standing for mant * 2^exp; the      *)
(*     values of the model have small mantissas and exponents, for which   *)
(*     the float32 product with 1024 is exact, so that "* 1024" adds 10 to *)
(*     the exponent (and leaves zero alone);                               *)
(*   - the ShapeClient is the environment: what it answers to a call is an *)
(*     input of the call.                                                  *)
(***************************************************************************)
EXTENDS Integers, Sequences, FiniteSets, TLC

VARIABLES cache, last, returned, inflight, raced

vars == <<cache, last, returned, inflight, raced>>

----------------------------------------------------------------------------
(* Bounds *)

\* number of instance pools
NumPools == 2
\* number of compartments
NumCompartments == 2
\* longest shape catalog a single call is checked against
MaxCatalog == 2
\* longest shape catalog in sequences of calls
MaxSeqCatalog == 1
\* number of goroutines that call the shape getter at the same time
NumThreads == 2

PoolIds == 1..NumPools
Threads == 1..NumThreads
Compartments == 1..NumCompartments

\* shape names known to the remote source
ShapeNames == {"VM.Standard2.1", "VM.Standard.E3.Flex"}

----------------------------------------------------------------------------
(* Optional values and float32 *)

None == <<>>
Some(v) == <<v>>
Opt(S) == {None} \cup {Some(v) : v \in S}

F32(n) == [mant |-> n, exp |-> 0]

\* x * 1024 in float32
F32Mul1024(x) == IF x.mant = 0 THEN x ELSE [mant |-> x.mant, exp |-> x.exp + 10]

\* x * 1024 * 1024 * 1024, evaluated left to right
InBytes(x) == F32Mul1024(F32Mul1024(F32Mul1024(x)))

\* the sign of a float32: -1, 0 or 1
F32Sign(x) == IF x.mant < 0 THEN -1 ELSE IF x.mant = 0 THEN 0 ELSE 1

\* x < y for two float32 of the model, whose mantissas are below 2^20 in
\* absolute value
F32Less(x, y) ==
    IF F32Sign(x) # F32Sign(y) THEN F32Sign(x) < F32Sign(y)
    ELSE IF x.mant = 0 THEN FALSE
    ELSE IF x.exp = y.exp THEN x.mant < y.mant
    ELSE IF x.exp < y.exp
    THEN IF y.exp - x.exp > 10 THEN y.mant > 0
         ELSE x.mant < y.mant * (2 ^ (y.exp - x.exp))
    ELSE IF x.exp - y.exp > 10 THEN x.mant < 0
         ELSE x.mant * (2 ^ (x.exp - y.exp)) < y.mant

----------------------------------------------------------------------------
(* Data *)

\* the zero Shape, &Shape{}
ZeroShape == [Name |-> "", CPU |-> F32(0), GPU |-> 0, MemoryInBytes |-> F32(0)]

\* a *core.InstancePool, as far as the shape getter reads it
InstancePools == {[Id |-> i, InstanceConfigurationId |-> i] : i \in PoolIds}

\* errors of the ShapeClient
RemoteErrors == {[msg |-> "service unavailable", arg |-> None],
                 [msg |-> "not authorized or not found", arg |-> None]}

ErrDetailsNotSet(id) ==
    [msg |-> "instance configuration details for instance %s has not been set",
     arg |-> Some(id)]

ErrComputeConfigNotFound(id) ==
    [msg |-> "(compute) instance configuration for instance-pool %s not found",
     arg |-> Some(id)]

ErrShapeNotFound(id) ==
    [msg |-> "shape information for instance-pool %s not found",
     arg |-> Some(id)]

\* the calls of the ShapeClient interface
GetInstanceConfigurationCall(id) ==
    [op |-> "GetInstanceConfiguration", arg |-> id]

\* ListShapes asked for a compartment other than the configuration's
ListShapesCallUnscoped(compartment) ==
    [op |-> "ListShapes", arg |-> 1]

ListShapesCall(compartment) ==
    [op |-> "ListShapes", arg |-> compartment]

----------------------------------------------------------------------------
(* What the remote source may answer *)

\* LaunchDetails.ShapeConfig
ShapeConfigsOver(ocpus, mems) ==
    [Ocpus : Opt(ocpus), MemoryInGBs : Opt(mems)]

\* ComputeInstanceDetails.LaunchDetails
LaunchDetailsOver(names, ocpus, mems) ==
    [Shape : Opt(names), ShapeConfig : Opt(ShapeConfigsOver(ocpus, mems))]

\* InstanceConfiguration.InstanceDetails: nil, a ComputeInstanceDetails, or
\* another implementation of the interface
InstanceDetailsOver(names, ocpus, mems) ==
    {[kind |-> "nil", LaunchDetails |-> None],
     [kind |-> "InstancePoolDetails", LaunchDetails |-> None]}
    \cup [kind : {"ComputeInstanceDetails"},
          LaunchDetails : Opt(LaunchDetailsOver(names, ocpus, mems))]

\* the answers to GetInstanceConfiguration
ConfigResponsesOver(errors, compartments, names, ocpus, mems) ==
    [err : {None}, InstanceDetails : InstanceDetailsOver(names, ocpus, mems),
     CompartmentId : compartments]
    \cup {[err |-> Some(e), InstanceDetails |-> [kind |-> "nil", LaunchDetails |-> None],
           CompartmentId |-> 1] : e \in errors}

\* core.Shape, an entry of the catalog
CatalogEntriesOver(names, ocpus, mems, gpus) ==
    [Shape : names, Ocpus : Opt(ocpus), MemoryInGBs : Opt(mems), Gpus : Opt(gpus)]

SeqsUpTo(S, n) == UNION {[1..k -> S] : k \in 0..n}

\* the answers to ListShapes; a failed listing carries no items
ListResponsesOver(errors, entries, n) ==
    [err : {None}, Items : SeqsUpTo(entries, n)]
    \cup {[err |-> Some(e), Items |-> <<>>] : e \in errors}

\* the configurations that make the shape getter list the catalog
ListsShapes(config) ==
    /\ config.err = None
    /\ config.InstanceDetails.kind = "ComputeInstanceDetails"
    /\ \/ config.InstanceDetails.LaunchDetails = None
       \/ config.InstanceDetails.LaunchDetails[1].ShapeConfig = None

\* The answers of the remote source to one call of the shape getter: the
\* catalog has up to n entries, or the listing fails, where the shape getter
\* lists it, and up to m entries where it does not.
RemotesOver(configs, errors, entries, n, m) ==
    [config : {c \in configs : ListsShapes(c)}, shapes : ListResponsesOver(errors, entries, n)]
    \cup [config : {c \in configs : ~ListsShapes(c)},
          shapes : ListResponsesOver({}, entries, m)]

\* single calls
FlexOcpus == {F32(-1), F32(4)}
FlexMemory == {F32(2), F32(64)}
CatalogOcpus == {F32(1), F32(2)}
CatalogMemory == {F32(15)}
CatalogGpus == {1}

Remotes ==
    RemotesOver(ConfigResponsesOver(RemoteErrors, Compartments, ShapeNames,
                                    FlexOcpus, FlexMemory),
                RemoteErrors,
                CatalogEntriesOver(ShapeNames, CatalogOcpus, CatalogMemory, CatalogGpus),
                MaxCatalog, 1)

\* sequences of calls: one error, one compartment, one shape name, catalog
\* entries with every field
SeqErrors == {[msg |-> "service unavailable", arg |-> None]}
SeqNames == {"VM.Standard2.1"}

SeqEntries ==
    {e \in CatalogEntriesOver(SeqNames, {F32(1)}, CatalogMemory, CatalogGpus) :
        e.Ocpus # None /\ e.MemoryInGBs # None /\ e.Gpus # None}

SeqRemotes ==
    RemotesOver(ConfigResponsesOver(SeqErrors, {1}, SeqNames, {F32(4)}, {}),
                SeqErrors, SeqEntries, MaxSeqCatalog, 0)

----------------------------------------------------------------------------
(* shapeGetterImpl.GetInstancePoolShape *)

Return(shape, err, calls, c) ==
    [shape |-> shape, err |-> err, panicked |-> FALSE, calls |-> calls, cache |-> c]

\* a nil pointer dereference: the call returns nothing
Panic(calls, c) ==
    [shape |-> None, err |-> None, panicked |-> TRUE, calls |-> calls, cache |-> c]

\* the body of the loop without the comparison of the names
MatchShapeAnyName(shape, nextShape, name) ==
    LET s1 == [shape EXCEPT !.Name = nextShape.Shape]
        s2 == IF nextShape.Ocpus # None
              THEN [s1 EXCEPT !.CPU = nextShape.Ocpus[1]] ELSE s1
        s3 == IF nextShape.MemoryInGBs # None
              THEN [s2 EXCEPT !.MemoryInBytes = InBytes(nextShape.MemoryInGBs[1])]
              ELSE s2
    IN  IF nextShape.Gpus # None THEN [s3 EXCEPT !.GPU = nextShape.Gpus[1]] ELSE s3

\* the body of the loop with a new Shape for every entry that matches
MatchShapeReset(shape, nextShape, name) ==
    IF nextShape.Shape = name
    THEN [Name |-> nextShape.Shape,
          CPU |-> IF nextShape.Ocpus # None THEN nextShape.Ocpus[1] ELSE F32(0),
          MemoryInBytes |-> IF nextShape.MemoryInGBs # None
                            THEN InBytes(nextShape.MemoryInGBs[1]) ELSE F32(0),
          GPU |-> IF nextShape.Gpus # None THEN nextShape.Gpus[1] ELSE 0]
    ELSE shape

\* the body of the loop over allShapes.Items, for one entry
MatchShape(shape, nextShape, name) ==
    IF nextShape.Shape = name
    THEN LET s1 == [shape EXCEPT !.Name = nextShape.Shape]
             s2 == IF nextShape.Ocpus # None
                   THEN [s1 EXCEPT !.CPU = nextShape.Ocpus[1]] ELSE s1
             s3 == IF nextShape.MemoryInGBs # None
                   THEN [s2 EXCEPT !.MemoryInBytes = InBytes(nextShape.MemoryInGBs[1])]
                   ELSE s2
         IN  IF nextShape.Gpus # None THEN [s3 EXCEPT !.GPU = nextShape.Gpus[1]] ELSE s3
    ELSE shape

\* the loop over allShapes.Items: the shape after the entries i..Len(items),
\* or None when *instanceDetails.LaunchDetails.Shape dereferences nil
RECURSIVE ScanShapes(_, _, _, _)
ScanShapes(shape, items, i, launchDetails) ==
    IF i > Len(items) THEN Some(shape)
    ELSE IF launchDetails = None \/ launchDetails[1].Shape = None THEN None
    ELSE ScanShapes(MatchShape(shape, items[i], launchDetails[1].Shape[1]),
                    items, i + 1, launchDetails)

\* the flexible branch with the memory read before the OCPUs
FlexibleShapeOcpusLast(shape, launchDetails) ==
    LET s1 == IF launchDetails.Shape # None
              THEN [shape EXCEPT !.Name = launchDetails.Shape[1]] ELSE shape
        sc == launchDetails.ShapeConfig[1]
        s2 == IF sc.MemoryInGBs # None
              THEN [s1 EXCEPT !.MemoryInBytes = InBytes(sc.MemoryInGBs[1])]
              ELSE s1
    IN  IF sc.Ocpus # None
        THEN [s2 EXCEPT !.CPU = sc.Ocpus[1], !.MemoryInBytes = InBytes(sc.Ocpus[1])]
        ELSE s2

\* the flexible branch
FlexibleShape(shape, launchDetails) ==
    LET s1 == IF launchDetails.Shape # None
              THEN [shape EXCEPT !.Name = launchDetails.Shape[1]] ELSE shape
        sc == launchDetails.ShapeConfig[1]
        s2 == IF sc.Ocpus # None
              THEN [s1 EXCEPT !.CPU = sc.Ocpus[1], !.MemoryInBytes = InBytes(sc.Ocpus[1])]
              ELSE s1
    IN  IF sc.MemoryInGBs # None
        THEN [s2 EXCEPT !.MemoryInBytes = InBytes(sc.MemoryInGBs[1])]
        ELSE s2

\* the checks with the instance details looked at before the error
ConfigErrorDetailsFirst(ip, instanceConfig) ==
    IF instanceConfig.InstanceDetails.kind = "nil"
    THEN Some(ErrDetailsNotSet(ip.Id))
    ELSE IF instanceConfig.err # None
    THEN instanceConfig.err
    ELSE IF instanceConfig.InstanceDetails.kind # "ComputeInstanceDetails"
    THEN Some(ErrComputeConfigNotFound(ip.Id))
    ELSE None

\* the checks without the one for nil instance details
ConfigErrorNoNilCheck(ip, instanceConfig) ==
    IF instanceConfig.err # None
    THEN instanceConfig.err
    ELSE IF instanceConfig.InstanceDetails.kind # "ComputeInstanceDetails"
    THEN Some(ErrComputeConfigNotFound(ip.Id))
    ELSE None

\* the checks without the one for the kind of the instance details
ConfigErrorNoKindCheck(ip, instanceConfig) ==
    IF instanceConfig.err # None
    THEN instanceConfig.err
    ELSE IF instanceConfig.InstanceDetails.kind = "nil"
    THEN Some(ErrDetailsNotSet(ip.Id))
    ELSE None

\* the checks of the fetched configuration: the error the call ends with,
\* or None when the configuration is a compute instance configuration
ConfigError(ip, instanceConfig) ==
    IF instanceConfig.err # None
    THEN instanceConfig.err
    ELSE IF instanceConfig.InstanceDetails.kind = "nil"
    THEN Some(ErrDetailsNotSet(ip.Id))
    ELSE IF instanceConfig.InstanceDetails.kind # "ComputeInstanceDetails"
    THEN Some(ErrComputeConfigNotFound(ip.Id))
    ELSE None

\* the condition of the flexible branch asking for an OCPU count as well
HasShapeConfigWithOcpus(instanceDetails) ==
    /\ instanceDetails.LaunchDetails # None
    /\ instanceDetails.LaunchDetails[1].ShapeConfig # None
    /\ instanceDetails.LaunchDetails[1].ShapeConfig[1].Ocpus # None

\* the condition of the flexible branch
HasShapeConfig(instanceDetails) ==
    /\ instanceDetails.LaunchDetails # None
    /\ instanceDetails.LaunchDetails[1].ShapeConfig # None

\* the end of the function with the shape stored in the cache before the
\* name is checked
FinishStoringFirst(shape, id, calls, c) ==
    IF shape.Name = ""
    THEN Return(None, Some(ErrShapeNotFound(id)), calls, [c EXCEPT ![id] = Some(shape)])
    ELSE Return(Some(shape), None, calls, [c EXCEPT ![id] = Some(shape)])

\* the end of the function without the check of the name
FinishNoCheck(shape, id, calls, c) ==
    Return(Some(shape), None, calls, c)

\* the check of the name that ends the function; the cache is not written
Finish(shape, id, calls, c) ==
    IF shape.Name = ""
    THEN Return(None, Some(ErrShapeNotFound(id)), calls, c)
    ELSE Return(Some(shape), None, calls, c)

\* the function with the error of ListShapes returned to the caller
GetInstancePoolShapePropagating(c, ip, remote) ==
    LET instanceConfig == remote.config
        getCall == <<GetInstanceConfigurationCall(ip.InstanceConfigurationId)>>
        listCall == <<ListShapesCall(instanceConfig.CompartmentId)>>
        instanceDetails == instanceConfig.InstanceDetails
        configError == ConfigError(ip, instanceConfig)
    IN  IF configError # None
        THEN Return(None, configError, getCall, c)
        ELSE IF HasShapeConfig(instanceDetails)
        THEN Finish(FlexibleShape(ZeroShape, instanceDetails.LaunchDetails[1]),
                    ip.Id, getCall, c)
        ELSE IF remote.shapes.err # None
        THEN Return(None, remote.shapes.err, getCall \o listCall, c)
        ELSE LET scanned == ScanShapes(ZeroShape, remote.shapes.Items, 1,
                                       instanceDetails.LaunchDetails)
             IN  IF scanned = None
                 THEN Panic(getCall \o listCall, c)
                 ELSE Finish(scanned[1], ip.Id, getCall \o listCall, c)

\* allShapes, _ := ListShapes(...): the error of the listing is dropped and
\* the items of the answer are scanned
GetInstancePoolShape(c, ip, remote) ==
    LET instanceConfig == remote.config
        getCall == <<GetInstanceConfigurationCall(ip.InstanceConfigurationId)>>
        listCall == <<ListShapesCall(instanceConfig.CompartmentId)>>
        instanceDetails == instanceConfig.InstanceDetails
        configError == ConfigError(ip, instanceConfig)
    IN  IF configError # None
        THEN Return(None, configError, getCall, c)
        ELSE IF HasShapeConfig(instanceDetails)
        THEN Finish(FlexibleShape(ZeroShape, instanceDetails.LaunchDetails[1]),
                    ip.Id, getCall, c)
        ELSE LET scanned == ScanShapes(ZeroShape, remote.shapes.Items, 1,
                                       instanceDetails.LaunchDetails)
             IN  IF scanned = None
                 THEN Panic(getCall \o listCall, c)
                 ELSE Finish(scanned[1], ip.Id, getCall \o listCall, c)

----------------------------------------------------------------------------
(* The resolver *)

\* createShapeGetter: an empty cache (a pool id maps to None when the map
\* has no such key); no call made yet
Init ==
    /\ cache = [id \in PoolIds |-> None]
    /\ last = None
    /\ returned = [id \in PoolIds |-> None]
    /\ inflight = [t \in Threads |-> None]
    /\ raced = FALSE

\* One call of GetInstancePoolShape on the shape getter.  last records the
\* call: its arguments, what the remote source answered, what it returned,
\* the remote calls it issued, the cache it started from and what the call
\* before it for the same pool returned.  A panic ends the process, so that
\* no call follows it.
Resolve(ip, remote) ==
    /\ (IF last = None THEN TRUE ELSE ~last[1].panicked)
    /\ LET r == GetInstancePoolShape(cache, ip, remote)
       IN  /\ cache' = r.cache
           /\ last' = Some([ip |-> ip, remote |-> remote, shape |-> r.shape,
                            err |-> r.err, panicked |-> r.panicked, calls |-> r.calls,
                            cacheBefore |-> cache, previous |-> returned[ip.Id]])
           /\ returned' = [returned EXCEPT ![ip.Id] =
                              Some([shape |-> r.shape, err |-> r.err,
                                    panicked |-> r.panicked])]
    /\ UNCHANGED <<inflight, raced>>

\* calls one after the other on one shape getter
Next == \E ip \in InstancePools, remote \in SeqRemotes : Resolve(ip, remote)

Spec == Init /\ [][Next]_vars

\* the first call on a new shape getter
FirstCall == last = None /\ \E ip \in InstancePools, remote \in Remotes : Resolve(ip, remote)

SpecCall == Init /\ [][FirstCall]_vars

----------------------------------------------------------------------------
(* Calls of GetInstancePoolShape at the same time on one shape getter *)

(* A call is cut at its calls of the ShapeClient, where it blocks and other  *)
(* goroutines run:                                                           *)
(*   "fetch"  lines 79-108, GetInstanceConfiguration, the checks of its      *)
(*            answer and the flexible branch                                 *)
(*   "list"   lines 109-126, ListShapes and the loop over its items          *)
(*   "check"  lines 131-135, the check of the name and the return            *)
(* inflight[t] is the call of goroutine t: its pool, the step it is about to *)
(* take, the configuration it fetched, its local Shape and, once "done",     *)
(* what it returned.                                                         *)

\* The accesses to the fields of the shape getter by the step at pc: both
\* remote calls read osf.shapeClient; no step reads or writes osf.cache.
Accesses(pc) ==
    IF pc \in {"fetch", "list"}
    THEN {[field |-> "shapeClient", write |-> FALSE]}
    ELSE {}

Running(t) == inflight[t] # None /\ inflight[t][1].pc # "done"

\* two goroutines are about to access the field, one of them to write it,
\* and nothing orders the two accesses (the shape getter has no lock)
RaceOn(field, calls) ==
    \E t1, t2 \in Threads :
        /\ t1 # t2
        /\ calls[t1] # None /\ calls[t2] # None
        /\ \E a1 \in Accesses(calls[t1][1].pc), a2 \in Accesses(calls[t2][1].pc) :
              a1.field = field /\ a2.field = field /\ (a1.write \/ a2.write)

\* a panic of one goroutine ends the process
Alive ==
    \A t \in Threads : IF inflight[t] = None THEN TRUE ELSE ~inflight[t][1].ret.panicked

NoResult == [shape |-> None, err |-> None, panicked |-> FALSE]

Step(t, call) ==
    /\ inflight' = [inflight EXCEPT ![t] = Some(call)]
    /\ raced' = (raced \/ RaceOn("cache", [inflight EXCEPT ![t] = Some(call)]))
    /\ UNCHANGED <<cache, last, returned>>

Done(ip, config, r) ==
    [ip |-> ip, pc |-> "done", config |-> config, shape |-> ZeroShape,
     ret |-> [shape |-> r.shape, err |-> r.err, panicked |-> r.panicked]]

\* goroutine t calls GetInstancePoolShape(ip)
Begin(t, ip) ==
    /\ Alive
    /\ inflight[t] = None
    /\ Step(t, [ip |-> ip, pc |-> "fetch", config |-> None, shape |-> ZeroShape,
                ret |-> NoResult])

\* GetInstanceConfiguration answers instanceConfig to goroutine t
Fetch(t, instanceConfig) ==
    /\ Alive
    /\ Running(t) /\ inflight[t][1].pc = "fetch"
    /\ LET ip == inflight[t][1].ip
           configError == ConfigError(ip, instanceConfig)
       IN  IF configError # None
           THEN Step(t, Done(ip, Some(instanceConfig), Return(None, configError, <<>>, cache)))
           ELSE IF HasShapeConfig(instanceConfig.InstanceDetails)
           THEN Step(t, [ip |-> ip, pc |-> "check", config |-> Some(instanceConfig),
                         shape |-> FlexibleShape(ZeroShape,
                                       instanceConfig.InstanceDetails.LaunchDetails[1]),
                         ret |-> NoResult])
           ELSE Step(t, [ip |-> ip, pc |-> "list", config |-> Some(instanceConfig),
                         shape |-> ZeroShape, ret |-> NoResult])

\* ListShapes answers allShapes to goroutine t
List(t, allShapes) ==
    /\ Alive
    /\ Running(t) /\ inflight[t][1].pc = "list"
    /\ LET call == inflight[t][1]
           scanned == ScanShapes(call.shape, allShapes.Items, 1,
                                 call.config[1].InstanceDetails.LaunchDetails)
       IN  IF scanned = None
           THEN Step(t, Done(call.ip, call.config, Panic(<<>>, cache)))
           ELSE Step(t, [call EXCEPT !.pc = "check", !.shape = scanned[1]])

\* goroutine t checks the name and returns
Check(t) ==
    /\ Alive
    /\ Running(t) /\ inflight[t][1].pc = "check"
    /\ LET call == inflight[t][1]
       IN  Step(t, Done(call.ip, call.config, Finish(call.shape, call.ip.Id, <<>>, cache)))

SeqConfigs == {r.config : r \in SeqRemotes}
SeqLists == {r.shapes : r \in SeqRemotes}

NextConc ==
    \E t \in Threads :
        \/ \E ip \in InstancePools : Begin(t, ip)
        \/ \E instanceConfig \in SeqConfigs : Fetch(t, instanceConfig)
        \/ \E allShapes \in SeqLists : List(t, allShapes)
        \/ Check(t)

\* one call by each goroutine, interleaved
SpecConc == Init /\ [][NextConc]_vars

----------------------------------------------------------------------------
(* Properties *)

\* the last call, once there is one
Called == last # None
L == last[1]
Config == L.remote.config
Launch == Config.InstanceDetails.LaunchDetails
Items == L.remote.shapes.Items

\* the configuration was fetched and is a compute instance configuration
IsCompute == Config.err = None /\ Config.InstanceDetails.kind = "ComputeInstanceDetails"
\* the shape-config override is present
TakesFlexiblePath == IsCompute /\ Launch # None /\ Launch[1].ShapeConfig # None
TakesFixedPath == IsCompute /\ ~(Launch # None /\ Launch[1].ShapeConfig # None)

NoListShapes == \A i \in 1..Len(L.calls) : L.calls[i].op # "ListShapes"

\* gb * 1024^3
GiBytes(gb) == IF gb.mant = 0 THEN gb ELSE [mant |-> gb.mant, exp |-> gb.exp + 30]
OrZero(opt) == IF opt = None THEN F32(0) ELSE opt[1]

\* C1: when an earlier call resolved the pool of the last call, the last
\* call returns that Shape and issues no remote call.
C1_CacheHit ==
    (Called /\ L.previous # None /\ L.previous[1].shape # None)
        => (L.calls = <<>> /\ L.shape = L.previous[1].shape)

\* C2: a successful call for a pool that was not in the cache leaves the
\* cache with that pool mapped to the returned Shape, and otherwise as it was.
C2_OneInsertion ==
    (Called /\ L.shape # None /\ L.cacheBefore[L.ip.Id] = None)
        => cache = [L.cacheBefore EXCEPT ![L.ip.Id] = L.shape]

\* C3: a call that returns an error leaves the cache as it was, and the call
\* that follows a failed call for the same pool starts with the
\* GetInstanceConfiguration fetch.
C3_FailureNotCached ==
    Called =>
        /\ L.err # None => cache = L.cacheBefore
        /\ (L.previous # None /\ L.previous[1].err # None)
              => /\ Len(L.calls) >= 1
                 /\ L.calls[1] = GetInstanceConfigurationCall(L.ip.InstanceConfigurationId)

C3_Witness ==
    /\ Called
    /\ L.previous # None /\ L.previous[1].err # None
    /\ L.err # None
    /\ L.calls[1].op = "GetInstanceConfiguration"
    /\ cache = L.cacheBefore

\* C4: two successful calls in a row for one pool return equal Shapes.
C4_Idempotent ==
    (Called /\ L.previous # None /\ L.previous[1].shape # None /\ L.shape # None)
        => L.shape = L.previous[1].shape

\* C5: a call that misses the cache issues GetInstanceConfiguration alone on
\* the flexible path, and GetInstanceConfiguration followed by one ListShapes
\* for the compartment of the fetched configuration on the fixed path.
C5_RemoteCalls ==
    (Called /\ L.cacheBefore[L.ip.Id] = None) =>
        /\ TakesFlexiblePath
              => L.calls = <<[op |-> "GetInstanceConfiguration",
                              arg |-> L.ip.InstanceConfigurationId]>>
        /\ TakesFixedPath
              => L.calls = <<[op |-> "GetInstanceConfiguration",
                              arg |-> L.ip.InstanceConfigurationId],
                             [op |-> "ListShapes", arg |-> Config.CompartmentId]>>

C5_Witness ==
    /\ Called
    /\ TakesFixedPath
    /\ Config.CompartmentId = 2
    /\ L.ip.InstanceConfigurationId = 2
    /\ L.shape # None
    /\ Len(L.calls) = 2

\* C6: when GetInstanceConfiguration returns an error, the call returns that
\* error and no Shape, and does not call ListShapes.
C6_RemoteError ==
    (Called /\ Config.err # None)
        => (L.err = Config.err /\ L.shape = None /\ ~L.panicked /\ NoListShapes)

C6_Witness ==
    /\ Called
    /\ Config.err = Some([msg |-> "not authorized or not found", arg |-> None])
    /\ L.err = Config.err

\* C7: when the fetched configuration has nil instance details, the call
\* returns the "details has not been set" error for the pool and no Shape,
\* and does not call ListShapes.
C7_MissingDetails ==
    (Called /\ Config.err = None /\ Config.InstanceDetails.kind = "nil")
        => /\ L.err = Some([msg |-> "instance configuration details for instance %s has not been set",
                            arg |-> Some(L.ip.Id)])
           /\ L.shape = None
           /\ ~L.panicked
           /\ NoListShapes

C7_Witness ==
    /\ Called
    /\ Config.err = None /\ Config.InstanceDetails.kind = "nil"
    /\ L.ip.Id = 2
    /\ L.err # None
    /\ Len(L.calls) = 1

Matches == {i \in 1..Len(Items) : Items[i].Shape = Launch[1].Shape[1]}

\* C9: on the fixed path, when one catalog entry alone has the name of the
\* launch details' shape, the call returns the Shape with that name, the
\* entry's OCPUs, memory in GB * 1024^3 and GPUs, zero for a field the entry
\* lacks, whatever the other entries are.
C9_FixedLookup ==
    (Called /\ TakesFixedPath /\ Launch # None /\ Launch[1].Shape # None
        /\ Cardinality(Matches) = 1) =>
        LET e == Items[CHOOSE i \in Matches : TRUE]
        IN  L.shape = Some([Name |-> Launch[1].Shape[1],
                            CPU |-> OrZero(e.Ocpus),
                            MemoryInBytes |-> GiBytes(OrZero(e.MemoryInGBs)),
                            GPU |-> IF e.Gpus = None THEN 0 ELSE e.Gpus[1]])

C9_Witness ==
    /\ Called
    /\ TakesFixedPath /\ Launch # None /\ Launch[1].Shape = Some("VM.Standard2.1")
    /\ Len(Items) = 2
    /\ Items[1] = [Shape |-> "VM.Standard2.1", Ocpus |-> None,
                   MemoryInGBs |-> Some(F32(15)), Gpus |-> None]
    /\ Items[2] = [Shape |-> "VM.Standard.E3.Flex", Ocpus |-> Some(F32(1)),
                   MemoryInGBs |-> Some(F32(15)), Gpus |-> Some(1)]
    /\ L.shape = Some([Name |-> "VM.Standard2.1", CPU |-> F32(0),
                       MemoryInBytes |-> [mant |-> 15, exp |-> 30], GPU |-> 0])

\* neither path produced a name
NoNameProduced ==
    IF TakesFlexiblePath
    THEN Launch[1].Shape = None
    ELSE ~\E i \in 1..Len(Items) :
            Launch # None /\ Launch[1].Shape # None /\ Items[i].Shape = Launch[1].Shape[1]

\* C10: for a compute instance configuration, the call returns the "shape
\* information not found" error exactly when neither path produced a name.
C10_ShapeNotFound ==
    (Called /\ IsCompute) =>
        (L.err = Some([msg |-> "shape information for instance-pool %s not found",
                       arg |-> Some(L.ip.Id)])
            <=> NoNameProduced)

\* C11: every Shape a call returns has a non-empty Name.
C11_NameNotEmpty ==
    (Called /\ L.shape # None) => L.shape[1].Name # ""

C11_Witness ==
    /\ Called
    /\ L.previous # None /\ L.previous[1].err # None
    /\ TakesFixedPath
    /\ L.shape # None
    /\ L.shape[1].Name = "VM.Standard2.1"

\* C12: every Shape a call returns has CPU >= 0 and MemoryInBytes >= 0.
C12_NonNegative ==
    (Called /\ L.shape # None)
        => /\ ~F32Less(L.shape[1].CPU, F32(0))
           /\ ~F32Less(L.shape[1].MemoryInBytes, F32(0))

\* C13: when the fetched configuration has instance details that are not
\* ComputeInstanceDetails, the call returns the "(compute) instance
\* configuration not found" error for the pool and no Shape, and does not
\* call ListShapes.
C13_UnsupportedDetails ==
    (Called /\ Config.err = None
        /\ Config.InstanceDetails.kind \notin {"nil", "ComputeInstanceDetails"})
        => /\ L.err = Some([msg |-> "(compute) instance configuration for instance-pool %s not found",
                            arg |-> Some(L.ip.Id)])
           /\ L.shape = None
           /\ ~L.panicked
           /\ NoListShapes

C13_Witness ==
    /\ Called
    /\ Config.err = None /\ Config.InstanceDetails.kind = "InstancePoolDetails"
    /\ Len(Items) = 1
    /\ L.ip.Id = 2
    /\ L.err # None
    /\ Len(L.calls) = 1

\* C14: on the fixed path, when ListShapes returns an error, the call returns
\* the "shape information not found" error for the pool: neither the error of
\* the listing nor a Shape.
C14_ListingErrorSwallowed ==
    (Called /\ TakesFixedPath /\ L.remote.shapes.err # None)
        => /\ L.err = Some([msg |-> "shape information for instance-pool %s not found",
                            arg |-> Some(L.ip.Id)])
           /\ L.err # L.remote.shapes.err
           /\ L.shape = None
           /\ ~L.panicked

C14_Witness ==
    /\ Called
    /\ TakesFixedPath /\ Launch # None /\ Launch[1].Shape = Some("VM.Standard2.1")
    /\ L.remote.shapes.err = Some([msg |-> "service unavailable", arg |-> None])
    /\ Len(L.calls) = 2
    /\ L.err # None /\ L.err # L.remote.shapes.err

Max(S) == CHOOSE m \in S : \A k \in S : k <= m

\* several catalog entries have the name of the launch details' shape
SeveralMatches ==
    /\ Called /\ TakesFixedPath /\ Launch # None /\ Launch[1].Shape # None
    /\ Cardinality(Matches) >= 2

\* C15, as claimed: with several matching entries, CPU, MemoryInBytes and GPU
\* of the returned Shape are those of the last matching entry.
C15_LastMatchWins ==
    SeveralMatches =>
        LET e == Items[Max(Matches)]
        IN  L.shape = Some([Name |-> Launch[1].Shape[1],
                            CPU |-> OrZero(e.Ocpus),
                            MemoryInBytes |-> GiBytes(OrZero(e.MemoryInGBs)),
                            GPU |-> IF e.Gpus = None THEN 0 ELSE e.Gpus[1]])

\* C15, amended: with several matching entries, each of CPU, MemoryInBytes
\* and GPU of the returned Shape is that of the last matching entry that has
\* the field, and zero when no matching entry has it.
C15_LastPresentWins ==
    SeveralMatches =>
        LET withOcpus == {i \in Matches : Items[i].Ocpus # None}
            withMemory == {i \in Matches : Items[i].MemoryInGBs # None}
            withGpus == {i \in Matches : Items[i].Gpus # None}
        IN  L.shape = Some([Name |-> Launch[1].Shape[1],
                            CPU |-> IF withOcpus = {} THEN F32(0)
                                    ELSE Items[Max(withOcpus)].Ocpus[1],
                            MemoryInBytes |->
                                IF withMemory = {} THEN F32(0)
                                ELSE GiBytes(Items[Max(withMemory)].MemoryInGBs[1]),
                            GPU |-> IF withGpus = {} THEN 0
                                    ELSE Items[Max(withGpus)].Gpus[1]])

C15_Witness ==
    /\ SeveralMatches
    /\ Items = <<[Shape |-> "VM.Standard2.1", Ocpus |-> Some(F32(1)),
                  MemoryInGBs |-> Some(F32(15)), Gpus |-> Some(1)],
                 [Shape |-> "VM.Standard2.1", Ocpus |-> Some(F32(2)),
                  MemoryInGBs |-> None, Gpus |-> None]>>
    /\ L.shape = Some([Name |-> "VM.Standard2.1", CPU |-> F32(2),
                       MemoryInBytes |-> [mant |-> 15, exp |-> 30], GPU |-> 1])

\* C16: on the flexible path with an OCPU count, MemoryInBytes of the
\* returned Shape is not below the OCPU count * 1024^3.
C16_MemoryFloor ==
    (Called /\ TakesFlexiblePath /\ Launch[1].ShapeConfig[1].Ocpus # None
        /\ L.shape # None)
        => ~F32Less(L.shape[1].MemoryInBytes,
                    GiBytes(Launch[1].ShapeConfig[1].Ocpus[1]))

\* C17: on the flexible path ListShapes is not called and the GPU of the
\* returned Shape is 0, whatever the catalog holds.
C17_FlexibleNoGpu ==
    (Called /\ TakesFlexiblePath)
        => /\ NoListShapes
           /\ L.shape # None => L.shape[1].GPU = 0

C17_Witness ==
    /\ Called
    /\ TakesFlexiblePath /\ Launch[1].Shape = Some("VM.Standard2.1")
    /\ Len(Items) = 1
    /\ Items[1].Shape = "VM.Standard2.1" /\ Items[1].Gpus = Some(1)
    /\ L.shape # None /\ L.shape[1].GPU = 0
    /\ Len(L.calls) = 1

\* C18: for a compute instance configuration, the call completes: it returns
\* a Shape or an error.
C18_NeverAborts ==
    (Called /\ IsCompute) => (L.shape # None \/ L.err # None)

\* every goroutine has made its call and the call has returned
AllReturned ==
    \A t \in Threads :
        inflight[t] # None /\ inflight[t][1].pc = "done" /\ ~inflight[t][1].ret.panicked

NoCacheAccess ==
    /\ ~raced
    /\ ~RaceOn("cache", inflight)
    /\ \A t \in Threads :
          inflight[t] # None
              => \A a \in Accesses(inflight[t][1].pc) : a.field # "cache"

====
